---- MODULE Spec2Model ----
(***************************************************************************)
(* Membership management: the memberships and user_roles tables of the     *)
(* backend (supabase/migrations), the sign-up trigger handle_new_user, and *)
(* the two admin screens that write memberships: AddMembership             *)
(* (handleSubmit) and UpdateMembership (searchMembership, handleUpdate).   *)
(* The Reports screen (fetchMemberships) reads the table, and requests     *)
(* sent to the tables directly are decided by row level security.          *)
(*                                                                         *)
(* Every await of a handler is a step boundary: the request is answered by *)
(* the database in one step (its effect on the table and the handler's     *)
(* continuation up to the next await), and other sessions run in between.  *)
(* Dates are the yyyy-MM-dd text read as the number yyyymmdd; texts are    *)
(* sequences of one-character strings.                                     *)
(***************************************************************************)
EXTENDS Integers, Sequences, FiniteSets, TLC

\* ------------------------------------------------------------------ bounds
MaxNow == 1
MaxSubmits == 1
MaxSearches == 2
MaxUpdates == 2
MaxCreates == 3
MaxPureCount == 45
MaxInstants == 1
MaxAccess == 2
MaxReportUpdates == 1
MaxPureTicks == 12

Users == {"u1", "u2", "u3"}
Sessions == {"s1", "s2"}

\* ------------------------------------------------------- enums of the schema
app_role == {"admin", "user"}
membership_duration == {"6_months", "1_year", "2_years"}
membership_status == {"active", "cancelled", "expired"}
ExtensionType == membership_duration \cup {"cancel"}

\* ------------------------------------------------------------- date-fns
parseISO(s) == [y |-> s \div 10000, m |-> (s \div 100) % 100, d |-> s % 100]

format(dt) == dt.y * 10000 + dt.m * 100 + dt.d

isLeapYear(y) == (y % 4 = 0 /\ y % 100 # 0) \/ y % 400 = 0

getDaysInMonth(y, m) ==
  IF m = 2 THEN (IF isLeapYear(y) THEN 29 ELSE 28)
  ELSE IF m \in {4, 6, 9, 11} THEN 30 ELSE 31

\* The day is kept unless the target month is shorter: then its last day.
addMonths(dt, n) ==
  LET total == dt.y * 12 + (dt.m - 1) + n
      y == total \div 12
      m == (total % 12) + 1
      last == getDaysInMonth(y, m)
  IN  [y |-> y, m |-> m, d |-> IF dt.d > last THEN last ELSE dt.d]

\* addYears with the years counted as months.
addYearsAsMonths(dt, n) == addMonths(dt, n)

addYears(dt, n) == addMonths(dt, n * 12)

\* ------------------------------------------------- membership number text
Digits == <<"0", "1", "2", "3", "4", "5", "6", "7", "8", "9">>

\* String(n) of JavaScript and n::TEXT of SQL, for n >= 0.
RECURSIVE ToText(_)
ToText(n) ==
  IF n < 10 THEN <<Digits[n + 1]>>
  ELSE ToText(n \div 10) \o <<Digits[(n % 10) + 1]>>

Fill(k, c) == [i \in 1..k |-> c]

\* String.prototype.padStart: a text already as long as the width is kept whole.
padStart(s, width, c) ==
  IF Len(s) >= width THEN s ELSE Fill(width - Len(s), c) \o s

\* LPAD of PostgreSQL: a text longer than the width is cut to its first characters.
LPAD(s, width, c) ==
  IF Len(s) >= width THEN SubSeq(s, 1, width) ELSE Fill(width - Len(s), c) \o s

PadWidth == 6

MEM == <<"M", "E", "M">>

\* generateMembershipNumber numbering from the count plus two.
generateMembershipNumberSkipping(resp) ==
  LET totalCount == IF resp.error THEN 0 ELSE resp.count
  IN  MEM \o padStart(ToText(totalCount + 2), PadWidth, "0")

\* generateMembershipNumber with the "+ 1" of the count forgotten.
generateMembershipNumberOfCount(resp) ==
  LET totalCount == IF resp.error THEN 0 ELSE resp.count
  IN  MEM \o padStart(ToText(totalCount), PadWidth, "0")

\* Dashboard.tsx, generateMembershipNumber: resp is the answer of the exact-count
\* query ({count: totalCount}); totalCount is null when the query failed.
generateMembershipNumber(resp) ==
  LET totalCount == IF resp.error THEN 0 ELSE resp.count
  IN  MEM \o padStart(ToText(totalCount + 1), PadWidth, "0")

\* The database function generate_membership_number over a table of n rows.
generate_membership_number(n) ==
  LET counter == n + 1
  IN  MEM \o LPAD(ToText(counter), PadWidth, "0")

\* ------------------------------------------------------------ role assigner
\* assignRole with the test "= 0" widened to "<= 1".
assignRoleUpToOne(count) == IF count <= 1 THEN "admin" ELSE "user"

\* handle_new_user: IF (SELECT COUNT(*) FROM user_roles) = 0 THEN admin ELSE user.
assignRole(count) == IF count = 0 THEN "admin" ELSE "user"

\* ------------------------------------------------------------------- state
VARIABLES
  memberships,   \* public.memberships: the rows in insertion order; a row's id is its position
  user_roles,    \* public.user_roles: committed rows [user_id, role]
  profiles,      \* public.profiles: the ids of the committed profile rows
  signup,        \* per identity, its INSERT INTO auth.users transaction: pc, and the role row the trigger wrote in it
  registered,    \* history: the identities in the order their sign-up committed
  hist,          \* history: per membership row, its end_date at creation, the identity (auth.uid()) that
                 \* inserted it, the count its creation read, the creation requests refused for
                 \* carrying its number (and the count each had read), and the updates applied to it,
                 \* in order: which session and identity applied which action, from a loaded record
                 \* of which status and end_date
  now,           \* the calendar, in ticks
  clock,         \* the time of day, in instants
  sessUser,      \* per browser session, the signed-in identity ("none" when signed out)
  role,          \* per session, useAuth().role ("none" until loaded)
  membership,    \* UpdateMembership: the loaded record (id 0 when null)
  searchReq,     \* UpdateMembership: the membership numbers of the searches in flight
  searchLoading, \* UpdateMembership: the searchLoading flag
  updReq,        \* UpdateMembership: handleUpdate in flight: pc, and the membership and action its closure holds
  add,           \* AddMembership: handleSubmit in flight: pc, the form's duration, the count query's
                 \* answer, the generated number and end date
  formData,      \* AddMembership: the form: its contact fields (as one) and its duration
  stats,         \* Reports: the statistics of the last fetchMemberships (all 0 before the first)
  toast,         \* the toast the last step showed, and the session it showed it to
  quota,         \* how many submits, searches (and clears) and updates may still be started
  pureFn, pureIn, pureOut  \* the last isolated application of a pure function

dbVars == <<memberships, user_roles, profiles, signup, registered, hist, now, clock>>
uiVars == <<sessUser, role, membership, searchReq, searchLoading, updReq, add, formData, stats, quota>>
pureVars == <<pureFn, pureIn, pureOut>>
vars == <<dbVars, uiVars, toast, pureVars>>

\* The clock: new Date() on the clients, NOW() and CURRENT_DATE on the server.
Epoch == [y |-> 2024, m |-> 1, d |-> 31]
today(t) == format(addMonths(Epoch, 7 * t))

\* A timestamp: the tick of the calendar and the instant within it, as one number
\* that orders like the ISO text (new Date().toISOString() and NOW()).
toISOString(t, c) == t * (MaxInstants + 1) + c

NoMembership == [id |-> 0]
NoUpdate == [pc |-> "idle"]
NoSubmit == [pc |-> "idle"]
NoToast == [to |-> "none", msg |-> "none"]
NoQuota == [submits |-> 0, searches |-> 0, updates |-> 0]
EmptyForm == [contact |-> "", duration |-> "6_months"]
NoStats == [total |-> 0, active |-> 0, cancelled |-> 0, expired |-> 0]
Toast(s, m) == [to |-> s, msg |-> m]

\* SELECT * of one row, as the client receives it.
Selected(i) ==
  [id |-> i,
   membership_number |-> memberships[i].membership_number,
   contact |-> memberships[i].contact,
   duration |-> memberships[i].duration,
   status |-> memberships[i].status,
   start_date |-> memberships[i].start_date,
   end_date |-> memberships[i].end_date,
   created_by |-> memberships[i].created_by,
   created_at |-> memberships[i].created_at,
   updated_at |-> memberships[i].updated_at]

\* The membership numbers an admin types into the search box.
SearchInputs == {generate_membership_number(k) : k \in 0..MaxSubmits}

has_role(uid, r) == [user_id |-> uid, role |-> r] \in user_roles

get_user_role(uid) ==
  IF has_role(uid, "admin") THEN "admin"
  ELSE IF has_role(uid, "user") THEN "user" ELSE "none"

\* The memberships table with row level security left off: every request passes.
AdminPolicyOff(s) == TRUE

\* RLS of memberships: FOR ALL USING has_role(auth.uid(), 'admin').
AdminPolicy(s) == has_role(sessUser[s], "admin")

\* user_roles with a policy FOR ALL on one's own rows.
UserRolesPolicyForAll(s, cmd, row) == sessUser[s] = row.user_id

\* RLS of user_roles: the one policy is FOR SELECT USING auth.uid() = user_id;
\* no policy admits an insert, an update or a delete.
UserRolesPolicy(s, cmd, row) == cmd = "select" /\ sessUser[s] = row.user_id

\* The browser sessions, the screens and the memberships table before anyone acts.
InitRest(q) ==
  /\ memberships = <<>>
  /\ hist = <<>>
  /\ now = 0
  /\ clock = 0
  /\ sessUser = [s \in Sessions |-> "none"]
  /\ role = [s \in Sessions |-> "none"]
  /\ membership = [s \in Sessions |-> NoMembership]
  /\ searchReq = [s \in Sessions |-> {}]
  /\ searchLoading = [s \in Sessions |-> FALSE]
  /\ updReq = [s \in Sessions |-> NoUpdate]
  /\ add = [s \in Sessions |-> NoSubmit]
  /\ stats = [s \in Sessions |-> NoStats]
  /\ formData = [s \in Sessions |-> EmptyForm]
  /\ toast = NoToast
  /\ quota = q
  /\ pureFn = "none"
  /\ pureIn = 0
  /\ pureOut = <<>>

\* A fresh installation: no identity has signed up.
InitFresh ==
  /\ user_roles = {}
  /\ profiles = {}
  /\ signup = [u \in Users |-> [pc |-> "none", role |-> "none"]]
  /\ registered = <<>>
  /\ InitRest(NoQuota)

\* The installation after u1 and then u2 signed up, one after the other.
InitSignedUp ==
  /\ user_roles = {[user_id |-> "u1", role |-> "admin"], [user_id |-> "u2", role |-> "user"]}
  /\ profiles = {"u1", "u2"}
  /\ signup = [u \in Users |->
                 IF u = "u1" THEN [pc |-> "done", role |-> "admin"]
                 ELSE IF u = "u2" THEN [pc |-> "done", role |-> "user"]
                 ELSE [pc |-> "none", role |-> "none"]]
  /\ registered = <<"u1", "u2">>

Init ==
  /\ InitSignedUp
  /\ InitRest([submits |-> MaxSubmits, searches |-> MaxSearches, updates |-> MaxUpdates])

\* Only creation requests are made.
InitCreate ==
  /\ InitSignedUp
  /\ InitRest([submits |-> MaxCreates, searches |-> 0, updates |-> 0])

\* ----------------------------------------------------------------- sign-up
\* on_auth_user_created: the trigger runs inside the inserting transaction and
\* counts the user_roles rows committed so far (READ COMMITTED, no lock taken).
handle_new_user(u) ==
  /\ signup[u].pc = "none"
  /\ signup' = [signup EXCEPT ![u] =
                  [pc |-> "open", role |-> assignRole(Cardinality(user_roles))]]
  /\ toast' = NoToast
  /\ UNCHANGED <<memberships, user_roles, profiles, registered, hist, now, clock>>
  /\ UNCHANGED <<uiVars, pureVars>>

SignUpCommit(u) ==
  /\ signup[u].pc = "open"
  /\ signup' = [signup EXCEPT ![u].pc = "done"]
  /\ profiles' = profiles \cup {u}
  /\ user_roles' = user_roles \cup {[user_id |-> u, role |-> signup[u].role]}
  /\ registered' = Append(registered, u)
  /\ toast' = NoToast
  /\ UNCHANGED <<memberships, hist, now, clock>>
  /\ UNCHANGED <<uiVars, pureVars>>

\* useAuth(): the session's user and the role read from user_roles for it.
SignIn(s, u) ==
  /\ sessUser[s] = "none"
  /\ u \in profiles
  /\ sessUser' = [sessUser EXCEPT ![s] = u]
  /\ role' = [role EXCEPT ![s] = get_user_role(u)]
  /\ toast' = NoToast
  /\ UNCHANGED <<formData, stats, membership, searchReq, searchLoading, updReq, add, quota>>
  /\ UNCHANGED <<dbVars, pureVars>>

\* A request of session s is in flight.
InFlight(s) == add[s].pc # "idle" \/ updReq[s].pc # "idle" \/ searchReq[s] # {}

\* The clock with a nightly job that stores 'expired' on the active memberships
\* whose end date has passed.
TickExpiring ==
  /\ now < MaxNow
  /\ \A s \in Sessions : ~InFlight(s)
  /\ now' = now + 1
  /\ memberships' = [i \in DOMAIN memberships |->
                       IF memberships[i].status = "active" /\ memberships[i].end_date < today(now + 1)
                       THEN [memberships[i] EXCEPT !.status = "expired"]
                       ELSE memberships[i]]
  /\ toast' = NoToast
  /\ UNCHANGED <<user_roles, profiles, signup, registered, hist, clock>>
  /\ UNCHANGED <<uiVars, pureVars>>

\* The clock advances by whole ticks of seven months; a request is answered within
\* the tick in which it was sent.
Tick ==
  /\ now < MaxNow
  /\ \A s \in Sessions : ~InFlight(s)
  /\ now' = now + 1
  /\ toast' = NoToast
  /\ UNCHANGED <<memberships, user_roles, profiles, signup, registered, hist, clock>>
  /\ UNCHANGED <<uiVars, pureVars>>

\* Time passes within a day.
Instant ==
  /\ clock < MaxInstants
  /\ clock' = clock + 1
  /\ toast' = NoToast
  /\ UNCHANGED <<memberships, user_roles, profiles, signup, registered, hist, now>>
  /\ UNCHANGED <<uiVars, pureVars>>

\* ----------------------------------------------------------- AddMembership
\* calculateEndDate with the duration counted backwards from the start date.
calculateEndDateBackwards(duration, t) ==
  LET startDate == parseISO(today(t))
  IN  CASE duration = "6_months" -> format(addMonths(startDate, -6))
        [] duration = "1_year" -> format(addYears(startDate, -1))
        [] duration = "2_years" -> format(addYears(startDate, -2))

\* calculateEndDate: new Date() is the client's clock at tick t.
calculateEndDate(duration, t) ==
  LET startDate == parseISO(today(t))
  IN  CASE duration = "6_months" -> format(addMonths(startDate, 6))
        [] duration = "1_year" -> format(addYears(startDate, 1))
        [] duration = "2_years" -> format(addYears(startDate, 2))

\* The memberships table without the UNIQUE constraint on membership_number.
UniqueViolationNever(number) == FALSE

\* membership_number TEXT UNIQUE: an insert of a number already stored is refused.
UniqueViolation(number) ==
  \E i \in DOMAIN memberships : memberships[i].membership_number = number

\* The form is filled in (contact fields that pass membershipSchema.safeParse or
\* not: valid) and submitted: handleSubmit up to its first await.
handleSubmit(s, duration, valid) ==
  /\ role[s] = "admin"
  /\ add[s].pc = "idle"
  /\ quota.submits > 0
  /\ quota' = [quota EXCEPT !.submits = @ - 1]
  /\ formData' = [formData EXCEPT ![s] =
                    [contact |-> IF valid THEN "contact" ELSE "invalid", duration |-> duration]]
  /\ add' = IF valid THEN [add EXCEPT ![s] = [pc |-> "count", duration |-> duration]]
            ELSE add
  /\ toast' = IF valid THEN NoToast ELSE Toast(s, "invalid_form")
  /\ UNCHANGED <<stats, sessUser, role, membership, searchReq, searchLoading, updReq>>
  /\ UNCHANGED <<dbVars, pureVars>>

\* The exact-count query answers (or fails: failed); the number and the end date are
\* computed from the answer and the insert is sent.
GenerateNumber(s) ==
  /\ add[s].pc = "count"
  /\ \E failed \in BOOLEAN :
       LET resp == [error |-> failed, count |-> Len(memberships)]
       IN  add' = [add EXCEPT ![s] =
                     [pc |-> "insert",
                      duration |-> add[s].duration,
                      resp |-> resp,
                      membership_number |-> generateMembershipNumber(resp),
                      end_date |-> calculateEndDate(add[s].duration, now)]]
  /\ toast' = NoToast
  /\ UNCHANGED <<formData, stats, sessUser, role, membership, searchReq, searchLoading, updReq, quota>>
  /\ UNCHANGED <<dbVars, pureVars>>

\* The row stored when the status column's default is 'expired'.
NewRowExpired(s) ==
  [membership_number |-> add[s].membership_number,
   contact |-> "contact",
   duration |-> add[s].duration,
   status |-> "expired",
   start_date |-> today(now),
   end_date |-> add[s].end_date,
   created_by |-> sessUser[s],
   created_at |-> toISOString(now, clock),
   updated_at |-> toISOString(now, clock)]

\* The row the insert stores: status, start_date and the timestamps are column defaults.
NewRow(s) ==
  [membership_number |-> add[s].membership_number,
   contact |-> "contact",
   duration |-> add[s].duration,
   status |-> "active",
   start_date |-> today(now),
   end_date |-> add[s].end_date,
   created_by |-> sessUser[s],
   created_at |-> toISOString(now, clock),
   updated_at |-> toISOString(now, clock)]

\* The stored rows of membership number q.
RowOfNumber(q) ==
  {i \in DOMAIN memberships : memberships[i].membership_number = q}

\* handleSubmit with the form reset in a finally block.
FormAfterAlwaysReset(s, outcome) == EmptyForm

\* setFormData({...}) follows the "if (error) throw error": the form is reset when
\* the insert was stored and kept when it was refused.
FormAfter(s, outcome) == IF outcome = "created" THEN EmptyForm ELSE formData[s]

InsertOutcome(s, failed) ==
  IF failed THEN "network_error"
  ELSE IF ~AdminPolicy(s) THEN "rls_violation"
  ELSE IF UniqueViolation(add[s].membership_number) THEN "duplicate_key"
  ELSE "created"

\* The insert is answered: stored, or refused with an error that handleSubmit's
\* catch shows; setLoading(false) either way.
InsertMembership(s) ==
  /\ add[s].pc = "insert"
  /\ \E failed \in BOOLEAN :
       LET outcome == InsertOutcome(s, failed)
       IN  /\ memberships' = IF outcome = "created"
                             THEN Append(memberships, NewRow(s)) ELSE memberships
           /\ hist' = IF outcome = "created"
                      THEN Append(hist, [base |-> add[s].end_date, uid |-> sessUser[s],
                                         read |-> add[s].resp, refused |-> <<>>, ops |-> <<>>])
                      ELSE IF outcome = "duplicate_key"
                      THEN [hist EXCEPT ![CHOOSE i \in RowOfNumber(add[s].membership_number) : TRUE].refused =
                              Append(@, [by |-> s, resp |-> add[s].resp])]
                      ELSE hist
           /\ toast' = Toast(s, outcome)
           /\ formData' = [formData EXCEPT ![s] = FormAfter(s, outcome)]
  /\ add' = [add EXCEPT ![s] = NoSubmit]
  /\ UNCHANGED <<user_roles, profiles, signup, registered, now, clock>>
  /\ UNCHANGED <<stats, sessUser, role, membership, searchReq, searchLoading, updReq, quota>>
  /\ UNCHANGED pureVars

\* -------------------------------------------------------- UpdateMembership
\* searchMembership up to its await; q is the text of the search box, trimmed and
\* upper-cased. The Enter key starts a search even while one is in flight.
searchMembership(s, q) ==
  /\ role[s] = "admin"
  /\ quota.searches > 0
  /\ quota' = [quota EXCEPT !.searches = @ - 1]
  /\ IF q = <<>>
     THEN /\ toast' = Toast(s, "enter_number")
          /\ UNCHANGED <<membership, searchReq, searchLoading>>
     ELSE /\ searchLoading' = [searchLoading EXCEPT ![s] = TRUE]
          /\ membership' = [membership EXCEPT ![s] = NoMembership]
          /\ searchReq' = [searchReq EXCEPT ![s] = @ \cup {q}]
          /\ toast' = NoToast
  /\ UNCHANGED <<formData, stats, sessUser, role, updReq, add>>
  /\ UNCHANGED <<dbVars, pureVars>>

\* The select by membership_number is answered.
SearchResult(s, q) ==
  /\ q \in searchReq[s]
  /\ \E failed \in BOOLEAN :
       IF failed
       THEN /\ toast' = Toast(s, "network_error")
            /\ UNCHANGED membership
       ELSE IF RowOfNumber(q) = {}
       THEN /\ toast' = Toast(s, "not_found")
            /\ UNCHANGED membership
       ELSE /\ membership' = [membership EXCEPT ![s] = Selected(CHOOSE i \in RowOfNumber(q) : TRUE)]
            /\ toast' = NoToast
  /\ searchLoading' = [searchLoading EXCEPT ![s] = FALSE]
  /\ searchReq' = [searchReq EXCEPT ![s] = @ \ {q}]
  /\ UNCHANGED <<formData, stats, sessUser, role, updReq, add, quota>>
  /\ UNCHANGED <<dbVars, pureVars>>

calculateNewEndDate(currentEndDate, extension) ==
  LET endDate == parseISO(currentEndDate)
  IN  CASE extension = "6_months" -> format(addMonths(endDate, 6))
        [] extension = "1_year" -> format(addYears(endDate, 1))
        [] extension = "2_years" -> format(addYears(endDate, 2))
        [] OTHER -> currentEndDate

\* handleUpdate up to its first await: the closure holds the loaded membership and
\* the selected action; the request carries updated_at, read from the client's
\* clock when the request is built.
handleUpdate(s, action) ==
  /\ role[s] = "admin"
  /\ membership[s].id # 0
  /\ updReq[s].pc = "idle"
  /\ quota.updates > 0
  /\ quota' = [quota EXCEPT !.updates = @ - 1]
  /\ updReq' = [updReq EXCEPT ![s] =
                  [pc |-> "update", membership |-> membership[s], action |-> action,
                   at |-> toISOString(now, clock)]]
  /\ toast' = NoToast
  /\ UNCHANGED <<formData, stats, sessUser, role, membership, searchReq, searchLoading, add>>
  /\ UNCHANGED <<dbVars, pureVars>>

\* handleUpdate sending start_date with an extension as well: the membership
\* starts again at the old end date.
UpdatedRowRestarted(row, req) ==
  IF req.action = "cancel"
  THEN [row EXCEPT !.status = "cancelled", !.updated_at = req.at]
  ELSE [row EXCEPT !.start_date = req.membership.end_date,
                   !.end_date = calculateNewEndDate(req.membership.end_date, req.action),
                   !.status = "active",
                   !.updated_at = req.at]

\* The values handleUpdate sends for the row: status and updated_at on a cancel;
\* end_date, status and updated_at on an extension.
UpdatedRow(row, req) ==
  IF req.action = "cancel"
  THEN [row EXCEPT !.status = "cancelled", !.updated_at = req.at]
  ELSE [row EXCEPT !.end_date = calculateNewEndDate(req.membership.end_date, req.action),
                   !.status = "active",
                   !.updated_at = req.at]

\* The update ... eq('id', membership.id) is answered. A failure goes to the catch;
\* an update the policy hides the row from changes nothing and reports no error.
UpdateRow(s) ==
  /\ updReq[s].pc = "update"
  /\ \E failed \in BOOLEAN :
       LET req == updReq[s]
           i == req.membership.id
           applies == ~failed /\ AdminPolicy(s)
       IN  /\ memberships' = IF applies
                             THEN [memberships EXCEPT ![i] = UpdatedRow(@, req)]
                             ELSE memberships
           /\ hist' = IF applies
                      THEN [hist EXCEPT ![i].ops =
                              Append(@, [by |-> s, uid |-> sessUser[s], action |-> req.action,
                                         seen |-> req.membership.status,
                                         from |-> req.membership.end_date])]
                      ELSE hist
           /\ toast' = Toast(s, IF failed THEN "network_error"
                                ELSE IF req.action = "cancel" THEN "cancelled" ELSE "extended")
           /\ updReq' = [updReq EXCEPT ![s] =
                           IF failed THEN NoUpdate ELSE [req EXCEPT !.pc = "refresh"]]
  /\ UNCHANGED <<user_roles, profiles, signup, registered, now, clock>>
  /\ UNCHANGED <<formData, stats, sessUser, role, membership, searchReq, searchLoading, add, quota>>
  /\ UNCHANGED pureVars

\* "Refresh the membership data": the re-read is answered; without data the loaded
\* membership stays as it was. setLoading(false).
RefreshMembership(s) ==
  /\ updReq[s].pc = "refresh"
  /\ \E failed \in BOOLEAN :
       membership' = IF failed THEN membership
                     ELSE [membership EXCEPT ![s] = Selected(updReq[s].membership.id)]
  /\ updReq' = [updReq EXCEPT ![s] = NoUpdate]
  /\ toast' = NoToast
  /\ UNCHANGED <<formData, stats, sessUser, role, searchReq, searchLoading, add, quota>>
  /\ UNCHANGED <<dbVars, pureVars>>

\* The Clear button.
Clear(s) ==
  /\ role[s] = "admin"
  /\ membership[s].id # 0
  /\ quota.searches > 0
  /\ quota' = [quota EXCEPT !.searches = @ - 1]
  /\ membership' = [membership EXCEPT ![s] = NoMembership]
  /\ toast' = NoToast
  /\ UNCHANGED <<formData, stats, sessUser, role, searchReq, searchLoading, updReq, add>>
  /\ UNCHANGED <<dbVars, pureVars>>

\* ------------------------------------------------------------------ Reports
\* fetchMemberships, run when the Reports screen is shown to a signed-in user: the
\* select is answered with the rows as stored and the statistics count them by
\* their stored status; on an error the statistics stay as they were.
fetchMemberships(s) ==
  /\ sessUser[s] # "none"
  /\ \E failed \in BOOLEAN :
       LET data == {Selected(i) : i \in DOMAIN memberships}
           active == Cardinality({m \in data : m.status = "active"})
           cancelled == Cardinality({m \in data : m.status = "cancelled"})
           expired == Cardinality({m \in data : m.status = "expired"})
       IN  stats' = IF failed THEN stats
                    ELSE [stats EXCEPT ![s] = [total |-> Cardinality(data), active |-> active,
                                               cancelled |-> cancelled, expired |-> expired]]
  /\ toast' = NoToast
  /\ UNCHANGED <<formData, sessUser, role, membership, searchReq, searchLoading, updReq, add, quota>>
  /\ UNCHANGED <<dbVars, pureVars>>

\* ------------------------------------------- requests made past the screens
\* Any holder of the public API key, signed in or not, can send a request to the
\* tables directly; row level security decides what it does.
\* An insert into memberships with the columns handleSubmit sends.
ApiInsertMembership(s, number, duration) ==
  /\ quota.submits > 0
  /\ quota' = [quota EXCEPT !.submits = @ - 1]
  /\ LET outcome == IF ~AdminPolicy(s) THEN "rls_violation"
                    ELSE IF UniqueViolation(number) THEN "duplicate_key"
                    ELSE "created"
         end_date == calculateEndDate(duration, now)
         row == [membership_number |-> number,
                 contact |-> "contact",
                 duration |-> duration,
                 status |-> "active",
                 start_date |-> today(now),
                 end_date |-> end_date,
                 created_by |-> sessUser[s],
                 created_at |-> toISOString(now, clock),
                 updated_at |-> toISOString(now, clock)]
     IN  /\ memberships' = IF outcome = "created" THEN Append(memberships, row) ELSE memberships
         /\ hist' = IF outcome = "created"
                    THEN Append(hist, [base |-> end_date, uid |-> sessUser[s],
                                       read |-> [error |-> FALSE, count |-> Len(memberships)],
                                       refused |-> <<>>, ops |-> <<>>])
                    ELSE hist
         /\ toast' = Toast(s, outcome)
  /\ UNCHANGED <<user_roles, profiles, signup, registered, now, clock>>
  /\ UNCHANGED <<formData, stats, sessUser, role, membership, searchReq, searchLoading, updReq, add>>
  /\ UNCHANGED pureVars

\* An update of row i with the columns handleUpdate sends; the row is read and
\* changed by the one statement. A row the policy hides is not updated, without error.
ApiUpdateMembership(s, i, action) ==
  /\ quota.updates > 0
  /\ i \in DOMAIN memberships
  /\ quota' = [quota EXCEPT !.updates = @ - 1]
  /\ LET req == [membership |-> Selected(i), action |-> action, at |-> toISOString(now, clock)]
         applies == AdminPolicy(s)
     IN  /\ memberships' = IF applies THEN [memberships EXCEPT ![i] = UpdatedRow(@, req)]
                           ELSE memberships
         /\ hist' = IF applies
                    THEN [hist EXCEPT ![i].ops =
                            Append(@, [by |-> s, uid |-> sessUser[s], action |-> action,
                                       seen |-> memberships[i].status,
                                       from |-> memberships[i].end_date])]
                    ELSE hist
         /\ toast' = Toast(s, IF applies THEN "rows_updated" ELSE "no_rows")
  /\ UNCHANGED <<user_roles, profiles, signup, registered, now, clock>>
  /\ UNCHANGED <<formData, stats, sessUser, role, membership, searchReq, searchLoading, updReq, add>>
  /\ UNCHANGED pureVars

\* A write to user_roles: the rows of identity u are replaced by one row of role r.
ApiWriteRole(s, u, r) ==
  /\ u \in profiles
  /\ LET row == [user_id |-> u, role |-> r]
         admitted == UserRolesPolicy(s, "update", row)
     IN  /\ user_roles' = IF admitted
                          THEN {x \in user_roles : x.user_id # u} \cup {row}
                          ELSE user_roles
         /\ toast' = Toast(s, IF admitted THEN "role_written" ELSE "role_rls_violation")
  /\ UNCHANGED <<memberships, profiles, signup, registered, hist, now, clock>>
  /\ UNCHANGED <<uiVars, pureVars>>

\* ----------------------------------------------------------- specifications
\* The row a creation request of the admin u1 stored at the first instant.
StoredRow(number, duration) ==
  [membership_number |-> number,
   contact |-> "contact",
   duration |-> duration,
   status |-> "active",
   start_date |-> today(0),
   end_date |-> calculateEndDate(duration, 0),
   created_by |-> "u1",
   created_at |-> toISOString(0, 0),
   updated_at |-> toISOString(0, 0)]

\* The installation after u1 created a 6-month and then a 1-year membership.
InitStored(q) ==
  /\ InitSignedUp
  /\ memberships = <<StoredRow(generate_membership_number(0), "6_months"),
                     StoredRow(generate_membership_number(1), "1_year")>>
  /\ hist = [i \in 1..2 |-> [base |-> memberships[i].end_date, uid |-> "u1",
                              read |-> [error |-> FALSE, count |-> i - 1],
                              refused |-> <<>>, ops |-> <<>>]]
  /\ now = 0
  /\ clock = 0
  /\ sessUser = [s \in Sessions |-> "none"]
  /\ role = [s \in Sessions |-> "none"]
  /\ membership = [s \in Sessions |-> NoMembership]
  /\ searchReq = [s \in Sessions |-> {}]
  /\ searchLoading = [s \in Sessions |-> FALSE]
  /\ updReq = [s \in Sessions |-> NoUpdate]
  /\ add = [s \in Sessions |-> NoSubmit]
  /\ stats = [s \in Sessions |-> NoStats]
  /\ formData = [s \in Sessions |-> EmptyForm]
  /\ toast = NoToast
  /\ quota = q
  /\ pureFn = "none"
  /\ pureIn = 0
  /\ pureOut = <<>>

\* Only searches and updates are made.
InitUpdate == InitStored([submits |-> 0, searches |-> MaxSearches, updates |-> MaxUpdates])

\* Reports are read while an admin makes an update.
InitReports == InitStored([submits |-> 0, searches |-> MaxReportUpdates, updates |-> MaxReportUpdates])

\* The admin screens over an installation whose identities have signed up.
Next ==
  \/ \E s \in Sessions, u \in Users : SignIn(s, u)
  \/ Tick
  \/ \E s \in Sessions, d \in membership_duration, valid \in BOOLEAN : handleSubmit(s, d, valid)
  \/ \E s \in Sessions : GenerateNumber(s)
  \/ \E s \in Sessions : InsertMembership(s)
  \/ \E s \in Sessions, q \in SearchInputs \cup {<<>>} : searchMembership(s, q)
  \/ \E s \in Sessions, q \in SearchInputs : SearchResult(s, q)
  \/ \E s \in Sessions, a \in ExtensionType : handleUpdate(s, a)
  \/ \E s \in Sessions : UpdateRow(s)
  \/ \E s \in Sessions : RefreshMembership(s)
  \/ \E s \in Sessions : Clear(s)

Spec == Init /\ [][Next]_vars

\* Concurrent creation requests alone.
NextCreate ==
  \/ \E s \in Sessions, u \in Users : SignIn(s, u)
  \/ Tick
  \/ \E s \in Sessions, d \in membership_duration, valid \in BOOLEAN : handleSubmit(s, d, valid)
  \/ \E s \in Sessions : GenerateNumber(s)
  \/ \E s \in Sessions : InsertMembership(s)

SpecCreate == InitCreate /\ [][NextCreate]_vars

\* The screens, direct requests and a further sign-up, with identities of both roles
\* and signed-out sessions.
InitAccess ==
  /\ InitSignedUp
  /\ InitRest([submits |-> MaxAccess, searches |-> MaxAccess - 1, updates |-> MaxAccess - 1])

NextAccess ==
  \/ \E u \in Users : handle_new_user(u)
  \/ \E u \in Users : SignUpCommit(u)
  \/ \E s \in Sessions, u \in Users : SignIn(s, u)
  \/ \E s \in Sessions, valid \in BOOLEAN : handleSubmit(s, "6_months", valid)
  \/ \E s \in Sessions : GenerateNumber(s)
  \/ \E s \in Sessions : InsertMembership(s)
  \/ \E s \in Sessions, q \in SearchInputs : searchMembership(s, q)
  \/ \E s \in Sessions, q \in SearchInputs : SearchResult(s, q)
  \/ \E s \in Sessions, a \in ExtensionType : handleUpdate(s, a)
  \/ \E s \in Sessions : UpdateRow(s)
  \/ \E s \in Sessions : RefreshMembership(s)
  \/ \E s \in Sessions, q \in SearchInputs : ApiInsertMembership(s, q, "6_months")
  \/ \E s \in Sessions, i \in 1..MaxAccess, a \in ExtensionType : ApiUpdateMembership(s, i, a)
  \/ \E s \in Sessions, u \in Users, r \in app_role : ApiWriteRole(s, u, r)

SpecAccess == InitAccess /\ [][NextAccess]_vars

\* Searches, updates and reports over two stored memberships.
NextUpdate ==
  \/ \E s \in Sessions, u \in Users : SignIn(s, u)
  \/ Tick
  \/ Instant
  \/ \E s \in Sessions, q \in SearchInputs : searchMembership(s, q)
  \/ \E s \in Sessions, q \in SearchInputs : SearchResult(s, q)
  \/ \E s \in Sessions, a \in ExtensionType : handleUpdate(s, a)
  \/ \E s \in Sessions : UpdateRow(s)
  \/ \E s \in Sessions : RefreshMembership(s)
  \/ \E s \in Sessions : Clear(s)

SpecUpdate == InitUpdate /\ [][NextUpdate]_vars

\* The Reports screen beside the update screen.
NextReports ==
  \/ \E s \in Sessions, u \in Users : SignIn(s, u)
  \/ Tick
  \/ \E s \in Sessions, q \in SearchInputs : searchMembership(s, q)
  \/ \E s \in Sessions, q \in SearchInputs : SearchResult(s, q)
  \/ \E s \in Sessions, a \in ExtensionType : handleUpdate(s, a)
  \/ \E s \in Sessions : UpdateRow(s)
  \/ \E s \in Sessions : RefreshMembership(s)
  \/ \E s \in Sessions : fetchMemberships(s)

SpecReports == InitReports /\ [][NextReports]_vars

\* Sign-ups and sign-ins on a fresh installation.
NextSignUp ==
  \/ \E u \in Users : handle_new_user(u)
  \/ \E u \in Users : SignUpCommit(u)
  \/ \E s \in Sessions, u \in Users : SignIn(s, u)

SpecSignUp == InitFresh /\ [][NextSignUp]_vars

\* The pure functions applied in isolation to a count.
PureCounts ==
  (0..MaxPureCount) \cup {99, 100, 998, 999, 9998, 9999, 99998, 99999, 999997, 999998,
                           999999, 1000000, 9999998, 9999999}

\* The dates the calculators are applied to: the first, the middle and the last
\* days of every month of a common year and a leap year.
PureDates ==
  {format([y |-> y, m |-> m, d |-> d]) :
     <<y, m, d>> \in {x \in (2023..2024) \X (1..12) \X {1, 15, 28, 29, 30, 31} :
                        x[3] <= getDaysInMonth(x[1], x[2])}}

Durations == <<"6_months", "1_year", "2_years">>

ApplyAssignRole(k) ==
  /\ pureFn' = "assignRole"
  /\ pureIn' = k
  /\ pureOut' = <<assignRole(k)>>
  /\ UNCHANGED <<dbVars, uiVars, toast>>

ApplyGenerateMembershipNumber(n) ==
  /\ pureFn' = "generateMembershipNumber"
  /\ pureIn' = n
  /\ pureOut' = generateMembershipNumber([error |-> FALSE, count |-> n])
  /\ UNCHANGED <<dbVars, uiVars, toast>>

ApplySqlGenerateMembershipNumber(n) ==
  /\ pureFn' = "generate_membership_number"
  /\ pureIn' = n
  /\ pureOut' = generate_membership_number(n)
  /\ UNCHANGED <<dbVars, uiVars, toast>>

\* calculateEndDate at the tick t of the client's clock, for each duration.
ApplyCalculateEndDate(t) ==
  /\ pureFn' = "calculateEndDate"
  /\ pureIn' = today(t)
  /\ pureOut' = [k \in 1..3 |-> calculateEndDate(Durations[k], t)]
  /\ UNCHANGED <<dbVars, uiVars, toast>>

\* calculateNewEndDate of the end date d, for each duration.
ApplyCalculateNewEndDate(d) ==
  /\ pureFn' = "calculateNewEndDate"
  /\ pureIn' = d
  /\ pureOut' = [k \in 1..3 |-> calculateNewEndDate(d, Durations[k])]
  /\ UNCHANGED <<dbVars, uiVars, toast>>

NextPure ==
  \/ \E k \in PureCounts : ApplyAssignRole(k)
  \/ \E n \in PureCounts : ApplyGenerateMembershipNumber(n)
  \/ \E n \in PureCounts : ApplySqlGenerateMembershipNumber(n)
  \/ \E t \in 0..MaxPureTicks : ApplyCalculateEndDate(t)
  \/ \E d \in PureDates : ApplyCalculateNewEndDate(d)

SpecPure == InitFresh /\ [][NextPure]_vars

\* ================================================================== claims
\* The step in which the database answers session s's update request.
UpdateAnswered(s) == updReq[s].pc = "update" /\ updReq'[s].pc # "update"

\* The toasts that report an update as done.
Succeeded(tst) == tst.msg \in {"cancelled", "extended"}

\* A membership whose end date has passed is expired, whether or not a pass has
\* stored the status.
Expired(row) ==
  \/ row.status = "expired"
  \/ row.status = "active" /\ row.end_date < today(now)

\* ---- C1
\* C1: once a membership's stored status is cancelled it stays cancelled, and its
\* end_date no longer changes, whatever extend or cancel any session applies.
C1_CancelledIsTerminal ==
  [][\A i \in DOMAIN memberships :
       memberships[i].status = "cancelled"
         => /\ memberships'[i].status = "cancelled"
            /\ memberships'[i].end_date = memberships[i].end_date]_vars

\* ---- C2
\* C2: a cancel of an active membership stores the status cancelled, and an extend
\* answered for a record that is then cancelled is refused: it is not reported as
\* done and the stored rows stay as they were.
C2_ExtendAfterCancelRefused ==
  [][\A s \in Sessions :
       UpdateAnswered(s) =>
         LET req == updReq[s]
             i == req.membership.id
         IN  /\ (req.action = "cancel" /\ memberships[i].status = "active" /\ Succeeded(toast'))
                  => memberships'[i].status = "cancelled"
             /\ (req.action # "cancel" /\ memberships[i].status = "cancelled")
                  => (~Succeeded(toast') /\ memberships' = memberships)]_vars
\* ---- C3
\* C3: no two stored memberships have the same membership_number, however the
\* count reads and the inserts of concurrent creation requests interleave.
C3_MembershipNumbersUnique ==
  \A i, j \in DOMAIN memberships :
    i # j => memberships[i].membership_number # memberships[j].membership_number

\* Two rows are stored and a later insert has just been refused as a duplicate.
C3_Witness ==
  /\ Len(memberships) >= 2
  /\ toast.msg = "duplicate_key"

\* ---- C4
\* What the spec's transition table makes of one action on a record.
SerialStep(rec, action) ==
  IF rec.status # "active" THEN rec
  ELSE IF action = "cancel" THEN [rec EXCEPT !.status = "cancelled"]
  ELSE [rec EXCEPT !.end_date = calculateNewEndDate(rec.end_date, action)]

RECURSIVE SerialResult(_, _, _)
SerialResult(rec, ops, order) ==
  IF order = <<>> THEN rec
  ELSE SerialResult(SerialStep(rec, ops[Head(order)].action), ops, Tail(order))

Orders(n) == {p \in [1..n -> 1..n] : \A a, b \in 1..n : p[a] = p[b] => a = b}

\* The updates of row i came from different sessions, each holding the record as
\* it was created.
ConcurrentUpdates(i) ==
  LET ops == hist[i].ops
  IN  /\ \A a, b \in DOMAIN ops : ops[a].by = ops[b].by => a = b
      /\ \A a \in DOMAIN ops : ops[a].seen = "active" /\ ops[a].from = hist[i].base

\* C4: when admins who loaded the same membership each apply an extend or a
\* cancel, the stored status and end_date are those of the actions applied one
\* after the other in some order: no update is lost.
C4_NoLostUpdate ==
  \A i \in DOMAIN memberships :
    ConcurrentUpdates(i) =>
      \E p \in Orders(Len(hist[i].ops)) :
        LET r == SerialResult([status |-> "active", end_date |-> hist[i].base], hist[i].ops, p)
        IN  /\ memberships[i].status = r.status
            /\ memberships[i].end_date = r.end_date
\* ---- C5
Admins == {r.user_id : r \in {x \in user_roles : x.role = "admin"}}

\* C5: once anyone has signed up, exactly one identity holds the admin role, it
\* is the first identity registered, and every other identity holds the user role.
C5_FirstIdentityIsTheOnlyAdmin ==
  registered # <<>> =>
    /\ Admins = {registered[1]}
    /\ \A r \in user_roles : r.user_id # registered[1] => r.role = "user"

\* ---- C6
\* C6: the role assigned for a count of registered identities is admin when the
\* count is 0 and user for every count of 1 or more.
C6_RoleIsAFunctionOfTheCount ==
  pureFn = "assignRole" =>
    /\ pureIn = 0 => pureOut = <<"admin">>
    /\ pureIn >= 1 => pureOut = <<"user">>

\* The role was computed for a count well past the first sign-ups.
C6_Witness ==
  /\ pureFn = "assignRole"
  /\ pureIn = 41
  /\ pureOut = <<"user">>

\* ---- C7
DigitValue(c) == CHOOSE v \in 0..9 : Digits[v + 1] = c

RECURSIVE DecimalValue(_)
DecimalValue(ds) ==
  IF ds = <<>> THEN 0
  ELSE 10 * DecimalValue(SubSeq(ds, 1, Len(ds) - 1)) + DigitValue(ds[Len(ds)])

\* text is MEM followed by exactly six decimal digits that read as k.
IsPaddedNumber(text, k) ==
  /\ Len(text) = 9
  /\ SubSeq(text, 1, 3) = <<"M", "E", "M">>
  /\ \A p \in 4..9 : \E v \in 0..9 : text[p] = Digits[v + 1]
  /\ DecimalValue(SubSeq(text, 4, 9)) = k

\* C7: for a count n below the overflow bound (n + 1 has at most six digits), the
\* front-end generator and the database function both give MEM followed by n + 1
\* left-padded with zeros to six digits.
C7_NumberIsPaddedSuccessor ==
  (pureFn \in {"generateMembershipNumber", "generate_membership_number"} /\ pureIn + 1 <= 999999)
    => IsPaddedNumber(pureOut, pureIn + 1)

\* The spec's example: 41 existing memberships give MEM000042.
C7_Witness ==
  /\ pureFn = "generateMembershipNumber"
  /\ pureIn = 41
  /\ pureOut = <<"M", "E", "M", "0", "0", "0", "0", "4", "2">>

\* ---- C8
RECURSIVE Compound(_, _)
Compound(end_date, ops) ==
  IF ops = <<>> THEN end_date
  ELSE Compound(calculateNewEndDate(end_date, Head(ops).action), Tail(ops))

\* All updates of row i are extensions made from one session.
ExtendedInOneSession(i) ==
  LET ops == hist[i].ops
  IN  /\ ops # <<>>
      /\ \A a \in DOMAIN ops : ops[a].by = ops[1].by /\ ops[a].action # "cancel"

\* C8: extensions applied one after another from one update session each add
\* their duration to the end_date stored just before, so the stored end_date is
\* the original one compounded by all of them and the status stays active, also
\* when a re-read after an update returned no data.
C8_ExtensionsCompound ==
  \A i \in DOMAIN memberships :
    ExtendedInOneSession(i) =>
      /\ memberships[i].end_date = Compound(hist[i].base, hist[i].ops)
      /\ memberships[i].status = "active"

\* ---- C9
\* C9: an extension answered for an expired membership stores the status active
\* and an end_date computed from the current date, not from the stored one.
C9_RenewalRestartsFromToday ==
  [][\A s \in Sessions :
       (UpdateAnswered(s) /\ Succeeded(toast') /\ updReq[s].action # "cancel"
          /\ Expired(memberships[updReq[s].membership.id]))
         => LET i == updReq[s].membership.id
            IN  /\ memberships'[i].status = "active"
                /\ memberships'[i].end_date = calculateEndDate(updReq[s].action, now)]_vars

\* ---- C10
\* C10: a cancel answered for an expired membership is refused: it is not
\* reported as done and the stored rows, the status among them, stay as they were.
C10_CancelOfExpiredRefused ==
  [][\A s \in Sessions :
       (UpdateAnswered(s) /\ updReq[s].action = "cancel"
          /\ Expired(memberships[updReq[s].membership.id]))
         => (~Succeeded(toast') /\ memberships' = memberships)]_vars

\* ---- C11
\* C11: every stored membership was inserted, and every update that took effect
\* was issued, by an identity that holds the admin role; a request of an identity
\* with the user role, or of a session with no identity, changes no membership.
C11_OnlyAdminsWriteMemberships ==
  /\ Len(hist) = Len(memberships)
  /\ \A i \in DOMAIN hist :
       /\ has_role(hist[i].uid, "admin")
       /\ \A a \in DOMAIN hist[i].ops : has_role(hist[i].ops[a].uid, "admin")

\* A membership is stored and an insert sent by a signed-in identity of role user
\* has just been refused.
C11_Witness ==
  /\ Len(memberships) >= 1
  /\ toast.msg = "rls_violation"
  /\ has_role(sessUser[toast.to], "user")

\* ---- C12
RoleRows(u) == {r \in user_roles : r.user_id = u}

\* C12: every signed-up identity has exactly one role row, and no step (a further
\* sign-up, a creation, an extend, a cancel, a write sent to user_roles) removes or
\* changes a role row that is stored.
C12_OneRoleNeverChanged ==
  /\ [](\A u \in profiles : Cardinality(RoleRows(u)) = 1)
  /\ [][\A r \in user_roles : r \in user_roles']_vars

\* A third identity has signed up after a membership was created and updated, and a
\* write to user_roles has just been refused.
C12_Witness ==
  /\ signup["u3"].pc = "done"
  /\ Cardinality(user_roles) = 3
  /\ Len(memberships) >= 1
  /\ hist[1].ops # <<>>
  /\ toast.msg = "role_rls_violation"

\* ---- C13
\* C13: every stored membership has end_date >= start_date: at its creation, for
\* each of the three durations, and after every extend and cancel.
C13_EndNotBeforeStart ==
  \A i \in DOMAIN memberships : memberships[i].end_date >= memberships[i].start_date

\* A membership was created, extended and then cancelled, the later update after
\* the calendar moved on.
C13_Witness ==
  \E i \in DOMAIN memberships :
    /\ Len(hist[i].ops) = 2
    /\ hist[i].ops[1].action # "cancel"
    /\ memberships[i].status = "cancelled"
    /\ now = 1

\* ---- C14
\* C14: a membership that a creation request stores has the status active as its
\* first status, never cancelled or expired.
C14_CreatedActive ==
  [][Len(memberships') > Len(memberships)
       => /\ Len(memberships') = Len(memberships) + 1
          /\ memberships'[Len(memberships')].status = "active"]_vars

\* Creation requests of each duration have been stored, the last one just now.
C14_Witness ==
  /\ toast.msg = "created"
  /\ Len(memberships) = 3
  /\ {memberships[i].duration : i \in DOMAIN memberships} = membership_duration
  /\ \A i \in DOMAIN memberships : memberships[i].status = "active"

\* ---- C15
\* C15: an extend or a cancel leaves the membership's id, membership_number,
\* start_date and contact fields as they were (and who created it, and when), and
\* leaves every other membership entirely as it was; no row is added or removed.
C15_UpdateFrame ==
  [][\A s \in Sessions :
       UpdateAnswered(s) =>
         LET i == updReq[s].membership.id
         IN  /\ DOMAIN memberships' = DOMAIN memberships
             /\ \A j \in DOMAIN memberships : j # i => memberships'[j] = memberships[j]
             /\ memberships'[i].membership_number = memberships[i].membership_number
             /\ memberships'[i].start_date = memberships[i].start_date
             /\ memberships'[i].contact = memberships[i].contact
             /\ memberships'[i].created_by = memberships[i].created_by
             /\ memberships'[i].created_at = memberships[i].created_at]_vars

\* One of two stored memberships has just been extended, after the other was
\* cancelled.
C15_Witness ==
  /\ toast.msg = "extended"
  /\ \E i, j \in DOMAIN memberships :
       /\ i # j
       /\ memberships[j].status = "cancelled"
       /\ memberships[i].end_date # hist[i].base
       /\ hist[i].ops # <<>>

\* ---- C16
\* C16: after an extension is stored, the membership's duration field is the
\* duration chosen for that extension.
C16_DurationOverwritten ==
  [][\A s \in Sessions :
       (UpdateAnswered(s) /\ Succeeded(toast') /\ updReq[s].action # "cancel")
         => memberships'[updReq[s].membership.id].duration = updReq[s].action]_vars

\* ---- C17
\* The number a generator gives for the count n.
GeneratedBy(fn, n) ==
  IF fn = "generateMembershipNumber"
  THEN generateMembershipNumber([error |-> FALSE, count |-> n])
  ELSE generate_membership_number(n)

\* C17: for a count of 999999 or more, the front-end generator and the database
\* function give a number of more than six digits that no other count gets; never
\* a cut or wrapped number that an earlier count already got.
C17_NoTruncationPastOverflow ==
  (pureFn \in {"generateMembershipNumber", "generate_membership_number"} /\ pureIn >= 999999)
    => /\ Len(pureOut) > 9
       /\ \A m \in PureCounts : m # pureIn => GeneratedBy(pureFn, m) # pureOut

\* ---- C18
\* C18: the statistics a Reports pass computes count an active membership whose
\* end_date is before the current date under expired, not under active.
C18_ReportsCountLapsedAsExpired ==
  [][\A s \in Sessions :
       stats'[s] # stats[s] =>
         /\ stats'[s].expired =
              Cardinality({i \in DOMAIN memberships : Expired(memberships[i])})
         /\ stats'[s].active =
              Cardinality({i \in DOMAIN memberships :
                             memberships[i].status = "active" /\ ~Expired(memberships[i])})]_vars

\* ---- C19
\* C19: an extend or a cancel that is stored sets updated_at to the time of the
\* action: not before the row's created_at and not before the updated_at that
\* the row had, all times being read from one clock.
C19_UpdatedAtAdvances ==
  [][\A s \in Sessions :
       (UpdateAnswered(s) /\ Succeeded(toast'))
         => LET i == updReq[s].membership.id
            IN  /\ memberships'[i].updated_at = updReq[s].at
                /\ memberships'[i].updated_at >= memberships[i].created_at
                /\ memberships'[i].updated_at >= memberships[i].updated_at]_vars

\* ---- C20
\* C20: for a start date d the end dates of the three durations are strictly
\* ordered, end(d, 6 months) < end(d, 1 year) < end(d, 2 years), for the creation
\* calculator and for the extension calculator, and they are those of d and the
\* duration alone.
C20_EndDatesOrderedByDuration ==
  pureFn \in {"calculateEndDate", "calculateNewEndDate"} =>
    /\ pureOut[1] < pureOut[2]
    /\ pureOut[2] < pureOut[3]
    /\ pureIn < pureOut[1]
    /\ pureOut = [k \in 1..3 |-> calculateNewEndDate(pureIn, Durations[k])]

\* The extension calculator applied to a leap day: the month ends are clamped.
C20_Witness ==
  /\ pureFn = "calculateNewEndDate"
  /\ pureIn = 20240229
  /\ pureOut = <<20240829, 20250228, 20260228>>

\* ---- C21
\* The toasts that report a failed backend call.
Failed(tst) == tst.msg \in {"network_error", "rls_violation", "duplicate_key"}

\* C21: a backend call of create, extend or cancel that fails is reported to the
\* user as an error in the step that answers it: the creation goes on to its insert
\* only with a number computed from a count that was read; an insert that stored
\* nothing, an update that was not applied and a re-read that did not deliver the
\* row each show an error.
C21_FailuresAreSignalled ==
  [][\A s \in Sessions :
       /\ (add[s].pc = "count" /\ add'[s].pc = "insert")
            => add'[s].membership_number
                 = generateMembershipNumber([error |-> FALSE, count |-> Len(memberships)])
       /\ (add[s].pc = "insert" /\ add'[s].pc = "idle" /\ memberships' = memberships)
            => (Failed(toast') /\ toast'.to = s)
       /\ (UpdateAnswered(s) /\ hist' = hist)
            => (Failed(toast') /\ toast'.to = s)
       /\ (updReq[s].pc = "refresh" /\ updReq'[s].pc = "idle"
             /\ membership'[s] # Selected(updReq[s].membership.id))
            => (Failed(toast') /\ toast'.to = s)]_vars

\* ---- C22
\* C22: two creation requests in flight that read the same count carry the same
\* number; when the insert of a request is answered after a request that read the
\* same count was stored, exactly one membership has the number, the late request
\* stores nothing, shows an error, keeps its form as submitted, and ends without
\* another request being sent for it.
C22_DuplicateCreationRefused ==
  /\ [](\A s1, s2 \in Sessions :
         (add[s1].pc = "insert" /\ add[s2].pc = "insert"
            /\ ~add[s1].resp.error /\ add[s1].resp = add[s2].resp)
           => add[s1].membership_number = add[s2].membership_number)
  /\ [][\A s \in Sessions :
          (add[s].pc = "insert" /\ add'[s].pc # "insert" /\ ~add[s].resp.error
             /\ \E i \in DOMAIN memberships : hist[i].read = add[s].resp)
            => /\ memberships' = memberships
               /\ Cardinality(RowOfNumber(add[s].membership_number)) = 1
               /\ Failed(toast') /\ toast'.to = s
               /\ formData'[s] = formData[s] /\ formData[s].contact = "contact"
               /\ add' = [add EXCEPT ![s] = NoSubmit]
               /\ quota' = quota]_vars

\* A request that read the same count as a stored membership's own request has
\* just been refused as a duplicate, and its form is still filled in.
C22_Witness ==
  /\ toast.msg = "duplicate_key"
  /\ formData[toast.to].contact = "contact"
  /\ add[toast.to] = NoSubmit
  /\ \E i \in DOMAIN hist :
       /\ ~hist[i].read.error
       /\ \E k \in DOMAIN hist[i].refused :
            hist[i].refused[k] = [by |-> toast.to, resp |-> hist[i].read]

\* ---- C23
\* C23: the n-th membership stored has the number MEM followed by n zero-padded to
\* six digits, so the stored numbers are those of 1..n without gap or repeat,
\* whatever attempts failed in between (no row is ever removed).
C23_NumbersAreSequential ==
  \A i \in DOMAIN memberships : IsPaddedNumber(memberships[i].membership_number, i)

\* Three requests have ended, the last one just stored as the second membership
\* after reading the count 1; one request failed before it.
C23_Witness ==
  /\ toast.msg = "created"
  /\ Len(memberships) = 2
  /\ quota.submits = 0
  /\ \A s \in Sessions : add[s].pc = "idle"
  /\ hist[2].read = [error |-> FALSE, count |-> 1]

\* ---- C24
\* C24: no stored status is ever expired and the passage of time changes no stored
\* membership; a stored status changes only in the step that applies an update to
\* that membership, to cancelled by a cancel and to active by an extend, so a
\* membership whose end_date has passed keeps the status last written.
C24_TimeChangesNoStatus ==
  /\ [](\A i \in DOMAIN memberships : memberships[i].status # "expired")
  /\ [][/\ now' # now => memberships' = memberships
        /\ \A i \in DOMAIN memberships :
             memberships'[i].status # memberships[i].status
               => \E s \in Sessions :
                    /\ UpdateAnswered(s)
                    /\ updReq[s].membership.id = i
                    /\ memberships'[i].status =
                         IF updReq[s].action = "cancel" THEN "cancelled" ELSE "active"]_vars

\* The end date of a stored active membership has passed and it is still stored
\* active, beside a membership cancelled before.
C24_Witness ==
  /\ now = 1
  /\ \E i, j \in DOMAIN memberships :
       /\ memberships[i].status = "active"
       /\ memberships[i].end_date < today(now)
       /\ memberships[j].status = "cancelled"

\* ---- C25
\* C25: when the re-read after an update of membership A is answered while the
\* screen has another membership B loaded by a later search, B stays the loaded
\* membership.
C25_LateRefreshKeepsLaterSearch ==
  [][\A s \in Sessions :
       (updReq[s].pc = "refresh" /\ updReq'[s].pc = "idle"
          /\ membership[s].id # 0 /\ membership[s].id # updReq[s].membership.id)
         => membership'[s] = membership[s]]_vars

====
